---- MODULE Spec2Model ----
(***************************************************************************)
(* computeSales.py: total sales cost from a price catalogue and a sales    *)
(* record, both JSON files.  The model follows the four functions of the   *)
(* program: load_file, create_price_catalogue, func_total_cost and main.   *)
(***************************************************************************)
EXTENDS Integers, Sequences, FiniteSets, TLC

(***************************************************************************)
(* Bounds of the model.                                                    *)
(***************************************************************************)
MaxProducts == 2      \* longest product list given to create_price_catalogue
MaxSales == 2         \* longest sales list given to func_total_cost
MaxFileLen == 1       \* longest list held by an input file of a run of main
MaxRuns == 2          \* runs of the program against the same SalesResults.txt

(***************************************************************************)
(* JSON values as json.load returns them.  A value is a record: t is the   *)
(* Python type, s the text of a str, n the number of an int, float or bool *)
(* (True is 1, False is 0) and the length of a list or dict.  "absent" is  *)
(* a key that the mapping does not hold.                                   *)
(***************************************************************************)
Val(t, s, n) == [t |-> t, s |-> s, n |-> n]
None == Val("NoneType", "", 0)
Absent == Val("absent", "", 0)
JStr(s) == Val("str", s, 0)
JInt(n) == Val("int", "", n)
JFloat(n) == Val("float", "", n)
JBool(b) == Val("bool", "", IF b THEN 1 ELSE 0)
JList(n) == Val("list", "", n)

\* dict.get(key): the value, or None when the key is absent
Get(field) == IF field.t = "absent" THEN None ELSE field

\* Python truth value: None, "", 0, 0.0, False, [] and {} are falsy
Truthy(x) ==
    CASE x.t = "NoneType" -> FALSE
      [] x.t = "str" -> x.s # ""
      [] x.t \in {"int", "float", "bool"} -> x.n # 0
      [] x.t \in {"list", "dict"} -> x.n > 0
      [] OTHER -> FALSE

\* isinstance(x, int): the float of line 76 forgotten
isinstance_int(x) == x.t \in {"int", "bool"}

\* isinstance(x, (int, float)): bool is a subclass of int
isinstance_int_float(x) == x.t \in {"int", "float", "bool"}

\* hash(x) succeeds: a list or a dict as a dict key raises TypeError
Hashable(x) == x.t \notin {"list", "dict"}

\* The key a value is stored under: numbers that compare equal share a key
KeyOf(x) ==
    IF x.t \in {"int", "float", "bool"} THEN Val("num", "", x.n)
    ELSE Val(x.t, x.s, 0)

(***************************************************************************)
(* Input domains.                                                          *)
(***************************************************************************)
RECURSIVE ListsUpTo(_, _)
ListsUpTo(S, n) ==
    IF n = 0 THEN {<<>>}
    ELSE LET shorter == ListsUpTo(S, n - 1)
         IN  shorter \cup {Append(l, x) : l \in {m \in shorter : Len(m) = n - 1}, x \in S}

Titles == {Absent, JStr(""), JStr("A"), JStr("B"), JList(1)}
Prices == {Absent, JStr("x"), JInt(2), JFloat(5), JBool(TRUE)}
ProductEntries == [title : Titles, price : Prices]
ProductLists == ListsUpTo(ProductEntries, MaxProducts)

Products == {Absent, None, JStr(""), JStr("A"), JStr("B"), JList(1)}
Quantities == {Absent, JStr("5"), JInt(3), JInt(-1), JFloat(2), JBool(TRUE)}
SaleRecords == [Product : Products, Quantity : Quantities]
SalesLists == ListsUpTo(SaleRecords, MaxSales)

(***************************************************************************)
(* The price catalogue: a dict, here a function from keys to prices.       *)
(***************************************************************************)
EmptyDict == [k \in {} |-> None]

\* price_dict[title] = price, but keeping the price a title already has
DictSetKeepFirst(d, key, value) ==
    IF KeyOf(key) \in DOMAIN d THEN d
    ELSE [k \in DOMAIN d \cup {KeyOf(key)} |-> IF k = KeyOf(key) THEN value ELSE d[k]]

\* price_dict[title] = price
DictSet(d, key, value) ==
    [k \in DOMAIN d \cup {KeyOf(key)} |-> IF k = KeyOf(key) THEN value ELSE d[k]]

\* product_name in price_dict
DictHas(d, key) == KeyOf(key) \in DOMAIN d

\* price_dict[product_name]
DictGet(d, key) == d[KeyOf(key)]

\* the test of line 49
CatalogueAccepts(item) ==
    Truthy(Get(item.title)) /\ isinstance_int_float(Get(item.price))

\* line 50 raises TypeError when an accepted title cannot be hashed
CatalogueRaises(item) == CatalogueAccepts(item) /\ ~Hashable(Get(item.title))

\* one pass of the loop body of create_price_catalogue, lines 47-50
CatalogueAdd(d, item) ==
    IF CatalogueAccepts(item) THEN DictSet(d, Get(item.title), Get(item.price)) ELSE d

\* create_price_catalogue as a whole on a list that raises nothing
RECURSIVE create_price_catalogue(_)
create_price_catalogue(product_list) ==
    IF product_list = <<>> THEN EmptyDict
    ELSE CatalogueAdd(create_price_catalogue(SubSeq(product_list, 1, Len(product_list) - 1)),
                      product_list[Len(product_list)])

\* the catalogues create_price_catalogue returns for the product lists
Catalogues ==
    {create_price_catalogue(P) :
        P \in {Q \in ProductLists : \A k \in 1..Len(Q) : ~CatalogueRaises(Q[k])}}

(***************************************************************************)
(* The files and the command line of a run of main.                        *)
(***************************************************************************)
FileOf(kind, data) == [kind |-> kind, data |-> data]
FileProductEntries ==
    {[title |-> JStr("A"), price |-> JInt(2)], [title |-> JList(1), price |-> JInt(2)]}
FileSaleRecords ==
    {[Product |-> JStr("A"), Quantity |-> JInt(3)],
     [Product |-> Absent, Quantity |-> JInt(3)],
     [Product |-> JStr("A"), Quantity |-> JStr("5")],
     [Product |-> JStr("B"), Quantity |-> JInt(3)],
     [Product |-> JList(1), Quantity |-> JInt(3)]}
BrokenFiles == {FileOf("missing", <<>>), FileOf("invalid", <<>>), FileOf("null", <<>>)}
PriceFiles ==
    BrokenFiles \cup {FileOf("list", l) : l \in ListsUpTo(FileProductEntries, MaxFileLen)}
SalesFiles ==
    BrokenFiles \cup {FileOf("list", l) : l \in ListsUpTo(FileSaleRecords, MaxFileLen)}
Argvs ==
    {<<"computeSales.py", "priceCatalogue.json">>,
     <<"computeSales.py", "priceCatalogue.json", "salesRecord.json">>,
     <<"computeSales.py", "priceCatalogue.json", "salesRecord.json", "extra">>}
ElapsedTimes == {0, 1}

\* a line printed on the console
Msg(kind, a, b) == [kind |-> kind, a |-> a, b |-> b]
\* a line of text of the report
Line(label, v) == [label |-> label, v |-> v]

\* what load_file prints for a file, lines 27-32
load_file_prints(file, filename) ==
    CASE file.kind = "missing" -> <<Msg("no fue encontrado", JStr(filename), None)>>
      [] file.kind = "invalid" -> <<Msg("no tiene un formato valido", JStr(filename), None)>>
      [] OTHER -> <<>>

\* what load_file returns: None on the two errors, else what json.load gives
load_file(file) ==
    IF file.kind = "list" THEN [none |-> FALSE, data |-> file.data]
    ELSE [none |-> TRUE, data |-> <<>>]

NotLoaded == [none |-> TRUE, data |-> <<>>]

\* line 108 with "and" for "or"
LoadFailedBoth(pd, sd) == pd.none /\ sd.none

\* line 108
LoadFailed(pd, sd) == pd.none \/ sd.none

\* lines 119-127: the six lines of result_text
output_lines(name, total, elapsed) ==
    << Line("Resultados de ventas", None),
       Line("------------------------------", None),
       Line("Archivo de ventas : ", JStr(name)),
       Line("Total de ventas   : ", JFloat(total)),
       Line("Tiempo de ejecucion: ", JFloat(elapsed)),
       Line("------------------------------", None) >>

\* open(..., "w") then write: the text replaces the file
WriteTruncating(content, text) == text

\* open(..., "a") then write, lines 133-134
WriteAppending(content, text) == content \o text

(***************************************************************************)
(* State.                                                                  *)
(***************************************************************************)
VARIABLES
    pc,            \* where the program is
    argv,          \* sys.argv
    price_fs,      \* the file named by argv[1]
    sales_fs,      \* the file named by argv[2]
    product_data,  \* main: what load_file returned for the price file
    sales_data,    \* main: what load_file returned for the sales file
    product_list,  \* create_price_catalogue: its argument
    price_dict,    \* the catalogue being built, then read
    sales_list,    \* func_total_cost: its argument
    i,             \* position of the running for loop
    total_cost,    \* func_total_cost: the accumulator
    counted,       \* number of records that reached line 84
    stdout,        \* what the run printed
    results_file,  \* the lines of SalesResults.txt
    exit_code,     \* -1 while running
    raised,        \* the exception that ended a function, "" if none
    runs           \* runs started so far

vars == <<pc, argv, price_fs, sales_fs, product_data, sales_data, product_list,
          price_dict, sales_list, i, total_cost, counted, stdout, results_file,
          exit_code, raised, runs>>

env == <<argv, price_fs, sales_fs, runs>>
main_locals == <<product_data, sales_data>>

(***************************************************************************)
(* create_price_catalogue, lines 45-51                                     *)
(***************************************************************************)
\* lines 46-50, an entry that raises nothing
CatalogueStep ==
    /\ pc = "catalogue"
    /\ i <= Len(product_list)
    /\ ~CatalogueRaises(product_list[i])
    /\ price_dict' = CatalogueAdd(price_dict, product_list[i])
    /\ i' = i + 1
    /\ UNCHANGED <<pc, env, main_locals, product_list, sales_list, total_cost, counted,
                   stdout, results_file, exit_code, raised>>

\* line 50 on a title that cannot be hashed
CatalogueTypeError ==
    /\ pc = "catalogue"
    /\ i <= Len(product_list)
    /\ CatalogueRaises(product_list[i])
    /\ pc' = "raised"
    /\ raised' = "TypeError"
    /\ UNCHANGED <<env, main_locals, product_list, price_dict, sales_list, i, total_cost,
                   counted, stdout, results_file, exit_code>>

\* line 51
CatalogueReturn ==
    /\ pc = "catalogue"
    /\ i > Len(product_list)
    /\ pc' = "catalogue_done"
    /\ UNCHANGED <<env, main_locals, product_list, price_dict, sales_list, i, total_cost,
                   counted, stdout, results_file, exit_code, raised>>

(***************************************************************************)
(* func_total_cost, lines 65-89                                            *)
(***************************************************************************)
\* price + quantity, a slip for line 84
ContributionSum(price, quantity) == price.n + quantity.n

\* price * quantity, line 84
Contribution(price, quantity) == price.n * quantity.n

InTotalLoop == pc = "total" /\ i <= Len(sales_list)

\* lines 72-74: no product name
SaleWithoutProduct ==
    /\ InTotalLoop
    /\ LET sale == sales_list[i]
           product_name == Get(sale.Product)
       IN  /\ ~Truthy(product_name)
           /\ stdout' = Append(stdout, Msg("Venta sin nombre de producto",
                                           sale.Product, sale.Quantity))
    /\ i' = i + 1
    /\ UNCHANGED <<pc, env, main_locals, product_list, price_dict, sales_list,
                   total_cost, counted, results_file, exit_code, raised>>

\* lines 76-79: the quantity is no int and no float
SaleInvalidQuantity ==
    /\ InTotalLoop
    /\ LET sale == sales_list[i]
           product_name == Get(sale.Product)
           quantity == Get(sale.Quantity)
       IN  /\ Truthy(product_name)
           /\ ~isinstance_int_float(quantity)
           /\ stdout' = Append(stdout, Msg("Cantidad invalida", product_name, quantity))
    /\ i' = i + 1
    /\ UNCHANGED <<pc, env, main_locals, product_list, price_dict, sales_list,
                   total_cost, counted, results_file, exit_code, raised>>

\* lines 82-84: the product is in the catalogue
SaleCounted ==
    /\ InTotalLoop
    /\ LET sale == sales_list[i]
           product_name == Get(sale.Product)
           quantity == Get(sale.Quantity)
       IN  /\ Truthy(product_name)
           /\ isinstance_int_float(quantity)
           /\ Hashable(product_name)
           /\ DictHas(price_dict, product_name)
           /\ total_cost' =
                  total_cost + Contribution(DictGet(price_dict, product_name), quantity)
    /\ counted' = counted + 1
    /\ i' = i + 1
    /\ UNCHANGED <<pc, env, main_locals, product_list, price_dict, sales_list,
                   stdout, results_file, exit_code, raised>>

\* lines 85-87: the product is not in the catalogue
SaleNotFound ==
    /\ InTotalLoop
    /\ LET sale == sales_list[i]
           product_name == Get(sale.Product)
           quantity == Get(sale.Quantity)
       IN  /\ Truthy(product_name)
           /\ isinstance_int_float(quantity)
           /\ Hashable(product_name)
           /\ ~DictHas(price_dict, product_name)
           /\ stdout' = Append(stdout, Msg("no encontrado en el catalogo",
                                           product_name, None))
    /\ i' = i + 1
    /\ UNCHANGED <<pc, env, main_locals, product_list, price_dict, sales_list,
                   total_cost, counted, results_file, exit_code, raised>>

\* line 82 on a product name that cannot be hashed: TypeError leaves the function
SaleTypeError ==
    /\ InTotalLoop
    /\ LET sale == sales_list[i]
           product_name == Get(sale.Product)
           quantity == Get(sale.Quantity)
       IN  /\ Truthy(product_name)
           /\ isinstance_int_float(quantity)
           /\ ~Hashable(product_name)
    /\ pc' = "raised"
    /\ raised' = "TypeError"
    /\ UNCHANGED <<env, main_locals, product_list, price_dict, sales_list, i,
                   total_cost, counted, stdout, results_file, exit_code>>

\* line 89
TotalReturn ==
    /\ pc = "total"
    /\ i > Len(sales_list)
    /\ pc' = "total_done"
    /\ UNCHANGED <<env, main_locals, product_list, price_dict, sales_list, i,
                   total_cost, counted, stdout, results_file, exit_code, raised>>

(***************************************************************************)
(* main, lines 94-134                                                      *)
(***************************************************************************)
\* lines 94-97
MainUsage ==
    /\ pc = "start"
    /\ Len(argv) # 3
    /\ stdout' = Append(stdout, Msg("Uso correcto", None, None))
    /\ exit_code' = 1
    /\ pc' = "exit"
    /\ UNCHANGED <<env, main_locals, product_list, price_dict, sales_list, i,
                   total_cost, counted, results_file, raised>>

\* lines 99-106: both files are loaded before either result is looked at
MainLoad ==
    /\ pc = "start"
    /\ Len(argv) = 3
    /\ product_data' = load_file(price_fs)
    /\ sales_data' = load_file(sales_fs)
    /\ stdout' = stdout \o load_file_prints(price_fs, argv[2])
                        \o load_file_prints(sales_fs, argv[3])
    /\ pc' = "loaded"
    /\ UNCHANGED <<env, product_list, price_dict, sales_list, i, total_cost, counted,
                   results_file, exit_code, raised>>

\* lines 108-109
MainExitNoData ==
    /\ pc = "loaded"
    /\ LoadFailed(product_data, sales_data)
    /\ exit_code' = 1
    /\ pc' = "exit"
    /\ UNCHANGED <<env, main_locals, product_list, price_dict, sales_list, i,
                   total_cost, counted, stdout, results_file, raised>>

\* line 112: the call of create_price_catalogue, line 45
MainCallCatalogue ==
    /\ pc = "loaded"
    /\ ~LoadFailed(product_data, sales_data)
    /\ product_list' = product_data.data
    /\ price_dict' = EmptyDict
    /\ i' = 1
    /\ pc' = "catalogue"
    /\ UNCHANGED <<env, main_locals, sales_list, total_cost, counted, stdout,
                   results_file, exit_code, raised>>

\* line 113: the call of func_total_cost, line 65
MainCallTotal ==
    /\ pc = "catalogue_done"
    /\ sales_list' = sales_data.data
    /\ total_cost' = 0
    /\ counted' = 0
    /\ i' = 1
    /\ pc' = "total"
    /\ UNCHANGED <<env, main_locals, product_list, price_dict, stdout, results_file,
                   exit_code, raised>>

\* lines 115-134: the report, printed and appended to SalesResults.txt
MainReport ==
    /\ pc = "total_done"
    /\ \E elapsed_time \in ElapsedTimes :
          LET result_text == output_lines(argv[3], total_cost, elapsed_time)
          IN  /\ stdout' = Append(stdout, Msg("Resultados de ventas", JFloat(total_cost),
                                              JFloat(elapsed_time)))
              /\ results_file' =
                     WriteAppending(results_file, result_text \o <<Line("", None)>>)
    /\ exit_code' = 0
    /\ pc' = "exit"
    /\ UNCHANGED <<env, main_locals, product_list, price_dict, sales_list, i,
                   total_cost, counted, raised>>

\* line 138: an exception that main does not catch ends the process with status 1
MainUncaught ==
    /\ pc = "raised"
    /\ exit_code' = 1
    /\ pc' = "exit"
    /\ UNCHANGED <<env, main_locals, product_list, price_dict, sales_list, i,
                   total_cost, counted, stdout, results_file, raised>>

\* the program is started again: only SalesResults.txt is kept
NextRun ==
    /\ pc = "exit"
    /\ runs < MaxRuns
    /\ runs' = runs + 1
    /\ argv' \in Argvs
    /\ price_fs' \in PriceFiles
    /\ sales_fs' \in SalesFiles
    /\ pc' = "start"
    /\ product_data' = NotLoaded
    /\ sales_data' = NotLoaded
    /\ product_list' = <<>>
    /\ price_dict' = EmptyDict
    /\ sales_list' = <<>>
    /\ i' = 1
    /\ total_cost' = 0
    /\ counted' = 0
    /\ stdout' = <<>>
    /\ exit_code' = -1
    /\ raised' = ""
    /\ UNCHANGED results_file

(***************************************************************************)
(* Specifications.                                                         *)
(***************************************************************************)
Fresh ==
    /\ product_data = NotLoaded
    /\ sales_data = NotLoaded
    /\ product_list = <<>>
    /\ price_dict = EmptyDict
    /\ sales_list = <<>>
    /\ i = 1
    /\ total_cost = 0
    /\ counted = 0
    /\ stdout = <<>>
    /\ results_file = <<>>
    /\ exit_code = -1
    /\ raised = ""
    /\ runs = 1

\* a run of the program
Init ==
    /\ pc = "start"
    /\ argv \in Argvs
    /\ price_fs \in PriceFiles
    /\ sales_fs \in SalesFiles
    /\ Fresh

create_price_catalogue_steps == CatalogueStep \/ CatalogueTypeError \/ CatalogueReturn

func_total_cost_steps ==
    \/ SaleWithoutProduct
    \/ SaleInvalidQuantity
    \/ SaleCounted
    \/ SaleNotFound
    \/ SaleTypeError
    \/ TotalReturn

Next ==
    \/ MainUsage
    \/ MainLoad
    \/ MainExitNoData
    \/ MainCallCatalogue
    \/ create_price_catalogue_steps
    \/ MainCallTotal
    \/ func_total_cost_steps
    \/ MainReport
    \/ MainUncaught
    \/ NextRun

Spec == Init /\ [][Next]_vars

NoFiles ==
    /\ argv = <<"computeSales.py", "priceCatalogue.json", "salesRecord.json">>
    /\ price_fs = FileOf("list", <<>>)
    /\ sales_fs = FileOf("list", <<>>)

\* a call create_price_catalogue(P), P any product list
InitCatalogue ==
    /\ pc = "catalogue"
    /\ NoFiles
    /\ product_data = NotLoaded /\ sales_data = NotLoaded
    /\ product_list \in ProductLists
    /\ price_dict = EmptyDict
    /\ sales_list = <<>> /\ i = 1 /\ total_cost = 0 /\ counted = 0 /\ stdout = <<>>
    /\ results_file = <<>> /\ exit_code = -1 /\ raised = "" /\ runs = 1

SpecCatalogue == InitCatalogue /\ [][create_price_catalogue_steps]_vars

\* a call func_total_cost(create_price_catalogue(P), S), P any product list and
\* S any sales list
InitTotal ==
    /\ pc = "total"
    /\ NoFiles
    /\ product_data = NotLoaded /\ sales_data = NotLoaded /\ product_list = <<>>
    /\ price_dict \in Catalogues
    /\ sales_list \in SalesLists
    /\ i = 1 /\ total_cost = 0 /\ counted = 0 /\ stdout = <<>>
    /\ results_file = <<>> /\ exit_code = -1 /\ raised = "" /\ runs = 1

SpecTotal == InitTotal /\ [][func_total_cost_steps]_vars

(***************************************************************************)
(* Vocabulary of the claims.                                               *)
(***************************************************************************)
\* a number as the specification means it: an integer or a float, no boolean
SpecNumeric(x) == x.t \in {"int", "float"}

\* text that is not empty
NonEmptyText(x) == x.t = "str" /\ x.s # ""

\* a value Python takes for true: text, a number or a collection that is not
\* empty, zero or false
NonEmpty(x) ==
    \/ x.t = "str" /\ x.s # ""
    \/ x.t \in {"int", "float", "bool"} /\ x.n # 0
    \/ x.t = "list" /\ x.n > 0

\* the value behind a key of a record, null when the key is missing
Field(f) == IF f = Absent THEN None ELSE f

\* the record contributes to the total, as the specification has it
SpecCounts(d, sale) ==
    /\ NonEmpty(Field(sale.Product))
    /\ SpecNumeric(Field(sale.Quantity))
    /\ KeyOf(Field(sale.Product)) \in DOMAIN d

\* sum of price(Product) * Quantity over the records that contribute
RECURSIVE SpecSum(_, _)
SpecSum(d, S) ==
    IF S = <<>> THEN 0
    ELSE SpecSum(d, SubSeq(S, 1, Len(S) - 1))
         + (IF SpecCounts(d, S[Len(S)])
            THEN d[KeyOf(Field(S[Len(S)].Product))].n * Field(S[Len(S)].Quantity).n
            ELSE 0)

FunctionEnded == pc \in {"total_done", "raised"}

\* C1: when func_total_cost returns, the total is the sum of price * quantity
\* over the records with a non-empty Product, an integer or float Quantity and
\* a Product that is a key of the catalogue, and 0 for an empty sales list.
C1_TotalIsSpecSum ==
    pc = "total_done" => total_cost = SpecSum(price_dict, sales_list)

\* C2: func_total_cost never raises: whatever the records hold, the loop
\* reaches the end of the list and the function returns.
C2_NeverRaises ==
    /\ raised = ""
    /\ pc # "raised"

\* C3: every key of the catalogue is the title of an entry already read whose
\* title is non-empty and whose price is an integer or a float, not a boolean
\* and not a string; and building the catalogue raises no error.
C3_OnlyNumericPricesEnter ==
    /\ \A key \in DOMAIN price_dict :
          \E k \in 1..(i - 1) :
             /\ k <= Len(product_list)
             /\ KeyOf(Field(product_list[k].title)) = key
             /\ NonEmpty(Field(product_list[k].title))
             /\ SpecNumeric(Field(product_list[k].price))
    /\ raised = ""

\* the places of the product list that hold the title
PlacesOf(title) == {k \in 1..Len(product_list) : product_list[k].title = title}

\* the places whose entry the filter of line 49 lets through
AcceptedPlacesOf(title) ==
    {k \in PlacesOf(title) :
        product_list[k].price.t \in {"int", "float", "bool"}}

Last(places) == CHOOSE k \in places : \A m \in places : m <= k

\* C4 as stated: a title that two or more entries hold is a key of the
\* returned catalogue, with the price of the last of these entries.
C4_LaterEntryWins ==
    pc = "catalogue_done" =>
        \A title \in {t \in Titles : NonEmptyText(t)} :
            Cardinality(PlacesOf(title)) >= 2 =>
                /\ KeyOf(title) \in DOMAIN price_dict
                /\ price_dict[KeyOf(title)] = Field(product_list[Last(PlacesOf(title))].price)

\* C4 amended: a title that two or more entries hold is a key of the returned
\* catalogue exactly when the filter lets one of these entries through, and
\* its price is then the price of the last entry that the filter let through.
C4_LastAcceptedEntryWins ==
    pc = "catalogue_done" =>
        \A title \in {t \in Titles : NonEmptyText(t)} :
            Cardinality(PlacesOf(title)) >= 2 =>
                IF AcceptedPlacesOf(title) = {}
                THEN KeyOf(title) \notin DOMAIN price_dict
                ELSE /\ KeyOf(title) \in DOMAIN price_dict
                     /\ price_dict[KeyOf(title)] =
                            product_list[Last(AcceptedPlacesOf(title))].price

\* C4 witness: two entries titled A with different prices, the later one kept
C4_Witness ==
    /\ pc = "catalogue_done"
    /\ Len(product_list) = 2
    /\ product_list[1] = [title |-> JStr("A"), price |-> JInt(2)]
    /\ product_list[2] = [title |-> JStr("A"), price |-> JFloat(5)]
    /\ price_dict[KeyOf(JStr("A"))] = JFloat(5)
    /\ DOMAIN price_dict = {KeyOf(JStr("A"))}

(***************************************************************************)
(* main: fatal conditions and the results file.                            *)
(***************************************************************************)
WrongArgumentCount == Len(argv) # 3
PriceFileFatal == Len(argv) = 3 /\ price_fs.kind \in {"missing", "invalid"}
SalesFileFatal == Len(argv) = 3 /\ sales_fs.kind \in {"missing", "invalid"}
Fatal == WrongArgumentCount \/ PriceFileFatal \/ SalesFileFatal

Printed(kind, name) == \E k \in 1..Len(stdout) : stdout[k] = Msg(kind, name, None)

FatalMessage(fs, name) ==
    IF fs.kind = "missing" THEN Printed("no fue encontrado", JStr(name))
    ELSE Printed("no tiene un formato valido", JStr(name))

\* a run on a fatal condition stays out of the two functions, ends with exit
\* code 1 and has then printed the message of each condition it hit
FatalRunState ==
    /\ Fatal => pc \in {"start", "loaded", "exit"} /\ raised = ""
    /\ Fatal /\ pc = "exit" => exit_code = 1
    /\ WrongArgumentCount /\ pc = "exit" => Printed("Uso correcto", None)
    /\ PriceFileFatal /\ pc = "exit" => FatalMessage(price_fs, argv[2])
    /\ SalesFileFatal /\ pc = "exit" => FatalMessage(sales_fs, argv[3])
    /\ exit_code = 0 => ~Fatal

\* C5: on a wrong argument count, a missing input file or an input file that
\* is not valid JSON the run ends with exit code 1 after printing the message
\* of that condition, never enters create_price_catalogue or func_total_cost
\* and never writes SalesResults.txt; a run with exit code 0 hit none of them.
C5_FatalEndsBeforeAggregation ==
    /\ [] FatalRunState
    /\ [][Fatal => results_file' = results_file]_vars

\* C5 witness: the second run finds a price file that is not valid JSON and
\* ends with exit code 1, the report of the first run still in the file
C5_Witness ==
    /\ runs = 2
    /\ pc = "exit"
    /\ exit_code = 1
    /\ Len(argv) = 3
    /\ price_fs.kind = "invalid"
    /\ sales_fs.kind = "list"
    /\ Len(results_file) = 7

IsReportBlock(block) ==
    /\ Len(block) = 7
    /\ block[1] = Line("Resultados de ventas", None)
    /\ block[2] = Line("------------------------------", None)
    /\ block[3].label = "Archivo de ventas : "
    /\ block[4].label = "Total de ventas   : "
    /\ block[5].label = "Tiempo de ejecucion: "
    /\ block[6] = Line("------------------------------", None)
    /\ block[7] = Line("", None)

RunSucceeds == exit_code # 0 /\ exit_code' = 0

\* a step of a run either leaves the file alone or is the end of a successful
\* run, which adds one report block and a blank line after what was there
AppendsOneBlock ==
    IF RunSucceeds
    THEN /\ Len(results_file') = Len(results_file) + 7
         /\ SubSeq(results_file', 1, Len(results_file)) = results_file
         /\ IsReportBlock(SubSeq(results_file', Len(results_file) + 1, Len(results_file')))
         /\ results_file'[Len(results_file) + 4].v = JFloat(total_cost)
    ELSE results_file' = results_file

\* C6: SalesResults.txt is append-only across runs: each successful run keeps
\* the previous content as a prefix and adds exactly one report block followed
\* by a blank line, and no other step changes the file.
C6_ResultsFileAppendOnly ==
    /\ [] (Len(results_file) % 7 = 0 /\ Len(results_file) <= 7 * runs)
    /\ [][AppendsOneBlock]_vars

\* C6 witness: two successful runs with different totals, their blocks in
\* run order
C6_Witness ==
    /\ runs = 2
    /\ pc = "exit"
    /\ exit_code = 0
    /\ Len(results_file) = 14
    /\ results_file[4].v = JFloat(6)
    /\ results_file[11].v = JFloat(0)

(***************************************************************************)
(* func_total_cost: warnings and the accumulator.                          *)
(***************************************************************************)
\* C7: every record left out of the total has produced exactly one warning
\* and every counted record none, so when the function has ended the warnings
\* and the counted records together are as many as the sale records.
C7_OneWarningPerExcludedRecord ==
    FunctionEnded => Len(stdout) + counted = Len(sales_list)

NotFoundWarning(sale) == Msg("no encontrado en el catalogo", Field(sale.Product), None)

\* C8 as stated: with an empty catalogue the function returns 0.0 and has
\* printed the not-found warning for every record of the sales list.
C8_EveryRecordNotFound ==
    (price_dict = EmptyDict /\ pc = "total_done") =>
        /\ total_cost = 0
        /\ Len(stdout) = Len(sales_list)
        /\ \A k \in 1..Len(sales_list) : stdout[k] = NotFoundWarning(sales_list[k])

\* the record reaches the catalogue lookup of line 82
ReachesLookup(sale) ==
    /\ NonEmpty(Field(sale.Product))
    /\ Field(sale.Quantity).t \in {"int", "float", "bool"}

\* C8 amended: with an empty catalogue the total stays 0.0 and nothing is
\* counted; every record read so far has one warning, which is the not-found
\* warning exactly for the records with a non-empty Product and an int, float
\* or bool Quantity; the function raises only on such a record whose Product
\* cannot be hashed.
C8_EmptyCatalogueWarnsEachRecord ==
    (price_dict = EmptyDict /\ pc \in {"total", "total_done", "raised"}) =>
        /\ total_cost = 0
        /\ counted = 0
        /\ Len(stdout) = i - 1
        /\ \A k \in 1..(i - 1) :
              IF ReachesLookup(sales_list[k])
              THEN stdout[k] = NotFoundWarning(sales_list[k])
              ELSE stdout[k].kind \in {"Venta sin nombre de producto", "Cantidad invalida"}
        /\ pc = "raised" =>
              ReachesLookup(sales_list[i]) /\ Field(sales_list[i].Product).t = "list"

\* C8 witness: an empty catalogue, one record not found and one without product
C8_Witness ==
    /\ price_dict = EmptyDict
    /\ pc = "total_done"
    /\ Len(sales_list) = 2
    /\ stdout[1] = Msg("no encontrado en el catalogo", JStr("B"), None)
    /\ stdout[2].kind = "Venta sin nombre de producto"
    /\ total_cost = 0

\* C9 as stated: the accumulator never decreases from one record to the next.
C9_TotalNeverDecreases == [][total_cost' >= total_cost]_vars

\* what the record at the loop position adds to the total
StepContribution ==
    IF /\ InTotalLoop
       /\ ReachesLookup(sales_list[i])
       /\ KeyOf(Field(sales_list[i].Product)) \in DOMAIN price_dict
    THEN price_dict[KeyOf(Field(sales_list[i].Product))].n * Field(sales_list[i].Quantity).n
    ELSE 0

\* C9 amended: the accumulator starts at 0.0 and each step changes it by
\* price * quantity when the record passes the three checks and by nothing
\* otherwise; a negative product lowers it.
C9_TotalChangesOnlyByCountedRecords ==
    /\ total_cost = 0
    /\ [][total_cost' = total_cost + StepContribution]_vars

\* C9 witness: one record counted with a negative quantity, one skipped
C9_Witness ==
    /\ pc = "total_done"
    /\ counted = 1
    /\ Len(stdout) = 1
    /\ total_cost < 0

\* C10: a record with a boolean Quantity and a Product of the catalogue gets
\* the invalid-quantity warning naming the product and the value and leaves
\* the total as it was.
C10_BooleanQuantityRejected ==
    [][(/\ InTotalLoop
        /\ Field(sales_list[i].Quantity).t = "bool"
        /\ NonEmptyText(Field(sales_list[i].Product))
        /\ KeyOf(Field(sales_list[i].Product)) \in DOMAIN price_dict)
       => /\ total_cost' = total_cost
          /\ stdout' = Append(stdout, Msg("Cantidad invalida", Field(sales_list[i].Product),
                                          Field(sales_list[i].Quantity)))]_vars

====
